---------------------------- MODULE Spec2Model ----------------------------
(***************************************************************************)
(* A model of package pkgwatcher (src/pkgwatcher.go): a Watcher resolves   *)
(* import paths into a package registry, installs directory watches for    *)
(* every package directory, and relays the notifier's raw file events as   *)
(* events that also name the owning package.                               *)
(*                                                                         *)
(* Paths are sequences of path elements; an absolute path starts with the  *)
(* element "/", so <<"/">> is the filesystem root and <<"/","a","f.go">>   *)
(* is /a/f.go.  <<".">> is the relative path ".".                          *)
(***************************************************************************)
EXTENDS Naturals, Sequences, FiniteSets

\* ------------------------------------------------------------------ bounds
\* Longest list of initial import paths handed to NewWatcher.
MaxPaths == 2
\* Most environment faults (a failing Lstat, ReadDir or Watch) in one run.
MaxFaults == 1
\* Deepest WatchImportPath recursion followed: the goroutine's stack limit.
MaxDepth == 3

\* -------------------------------------------------------------- filesystem
Root == <<"/">>
Dot  == <<".">>
dA    == <<"/", "a">>
dAB   == <<"/", "a", "b">>
dABC  == <<"/", "a", "b", "c">>
dHid  == <<"/", "a", ".hid">>
dHidO == <<"/", "a", ".hid", "o">>
fA    == <<"/", "a", "f.go">>

\* The directories and the plain files of the file tree.
Dirs  == {Root, dA, dAB, dABC, dHid, dHidO}
Files == {fA}

\* The directories on which the environment may fail a call.
FaultyDirs == {dAB, dHid}

\* The entry names of the tree in lexical order, as ReadDir returns them.
NameOrder == <<".hid", "a", "b", "c", "f.go", "o">>

\* The names whose first byte is '.'.
DotNames == {".hid", "."}

NoPkg == "nil"
NoErr == [kind |-> "none", dir |-> <<>>, path |-> <<>>]
NoEvent == [Name |-> <<>>]

\* ------------------------------------------------------- package resolver
\* The packages the resolver knows, by canonical import path.
PkgDir(name) ==
  CASE name = "a" -> dA
    [] name = "b" -> dAB
    [] name = "h" -> dHidO
    [] name = "r" -> Root
    [] name = "s" -> dABC
    [] OTHER -> <<>>

PkgImports(name) ==
  CASE name = "a" -> <<"m", "b", "C">>
    [] name = "b" -> <<"a">>
    [] name = "s" -> <<"./s">>
    [] OTHER -> <<>>

PkgNames == {"a", "b", "h", "r", "s"}

\* Every import path that occurs, and those NewWatcher may be handed.
ImportPaths  == {"a", "b", "./a", "C", "m", "h", "r", "./s"}
InitialPaths == {"./a", "C", "m", "h", "r", "./s"}

\* build.Import(importPath, wd, AllowBinary): the canonical import path of
\* the package found (a local path such as "./a" resolves to the package's
\* canonical path "a"), or NoPkg when the lookup fails.
Import(importPath) ==
  CASE importPath = "./a" -> "a"
    [] importPath = "./s" -> "s"
    [] importPath \in PkgNames -> importPath
    [] OTHER -> NoPkg

\* ------------------------------------------------------------ path helpers
\* filepath.Dir
Dir(p) ==
  IF Len(p) > 1 THEN SubSeq(p, 1, Len(p) - 1)
  ELSE IF p = Root THEN Root ELSE Dot

\* filepath.Base
Base(p) == p[Len(p)]

\* The entries directly inside directory d, in lexical order.
RECURSIVE EntriesFrom(_, _)
EntriesFrom(d, i) ==
  IF i > Len(NameOrder) THEN <<>>
  ELSE LET e == Append(d, NameOrder[i])
       IN  (IF e \in Dirs \cup Files THEN <<e>> ELSE <<>>)
             \o EntriesFrom(d, i + 1)

\* A directory read that finds nothing.
ReadDirEmpty(d) == <<>>

ReadDir(d) == EntriesFrom(d, 1)


\* ------------------------------------------------------------------- state
VARIABLES
  importPaths,        \* NewWatcher's argument, as far as ranged over
  ctor,               \* "new", then "ok" (a Watcher returned) or "failed"
  done,               \* the Watcher's done channel: "nil" or "made"
  Packages,           \* Watcher.Packages, by import path
  DirPackages,        \* Watcher.DirPackages, by directory
  watchedDirectories, \* Watcher.watchedDirectories
  notifierOpen,       \* the fsnotify watcher is open
  notifierDirs,       \* the directories fsnotify accepted
  resPc,              \* the resolution goroutine
  stack,              \* its WatchImportPath frames, innermost last
  walk,               \* its running WatchDirectory/filepath.Walk, if any
  errPending,         \* the error it is blocked sending on Error, or NoErr
  errLog,             \* the errors received from Error, in order
  faults,             \* environment faults so far
  calls,              \* WatchImportPath calls, per import path
  resolveCalls,       \* build.Import calls, per import path
  wdCalls,            \* WatchDirectory calls, per directory
  watchCalls,         \* fsnotify.Watch calls, per directory
  proxyPc,            \* the proxyEvent goroutine
  cur,                \* the Event it is blocked sending on Event
  inflight,           \* raw events it received and has not yet published
  closePc             \* the caller's Close call

vars == <<importPaths, ctor, done, Packages, DirPackages, watchedDirectories,
          notifierOpen, notifierDirs, resPc, stack, walk, errPending,
          errLog, faults, calls, resolveCalls, wdCalls, watchCalls, proxyPc,
          cur, inflight, closePc>>

discVars  == <<importPaths, Packages, DirPackages, watchedDirectories,
               notifierDirs, stack, walk, errPending, faults, calls,
               resolveCalls, wdCalls, watchCalls>>
proxyVars == <<proxyPc, cur, inflight>>

NoWalk == [active |-> FALSE, root |-> <<>>, todo |-> <<>>, pc |-> "visit"]

Init ==
  /\ importPaths = <<>>
  /\ ctor = "new"
  /\ done = "nil"
  /\ Packages = [p \in ImportPaths \cup PkgNames |-> NoPkg]
  /\ DirPackages = [d \in Dirs |-> NoPkg]
  /\ watchedDirectories = {}
  /\ notifierOpen = FALSE
  /\ notifierDirs = {}
  /\ resPc = "notstarted"
  /\ stack = <<>>
  /\ walk = NoWalk
  /\ errPending = NoErr
  /\ errLog = <<>>
  /\ faults = 0
  /\ calls = [p \in ImportPaths |-> 0]
  /\ resolveCalls = [p \in ImportPaths |-> 0]
  /\ wdCalls = [d \in Dirs |-> 0]
  /\ watchCalls = [d \in Dirs |-> 0]
  /\ proxyPc = "notstarted"
  /\ cur = NoEvent
  /\ inflight = <<>>
  /\ closePc = "idle"

\* -------------------------------------------------------------- NewWatcher
\* NewWatcher made to start its goroutines before it looks at the error of
\* opening the notifier.
NewWatcherStartsFirst ==
  /\ ctor = "new"
  /\ \E opened \in BOOLEAN :
       /\ ctor' = IF opened THEN "ok" ELSE "failed"
       /\ notifierOpen' = opened
  /\ proxyPc' = "select"
  /\ resPc' = "running"
  /\ done' = "nil"
  /\ UNCHANGED <<discVars, errLog, cur, inflight, closePc>>

\* NewWatcher: the Watcher literal makes the maps and the Event channel and
\* leaves done nil; a failure to open the notifier returns before either
\* goroutine is started.
NewWatcher ==
  /\ ctor = "new"
  /\ \E opened \in BOOLEAN :
       IF opened
         THEN /\ ctor' = "ok"
              /\ notifierOpen' = TRUE
              /\ proxyPc' = "select"
              /\ resPc' = "running"
         ELSE /\ ctor' = "failed"
              /\ UNCHANGED <<notifierOpen, proxyPc, resPc>>
  /\ done' = "nil"
  /\ UNCHANGED <<discVars, errLog, cur, inflight, closePc>>

\* --------------------------------------------------------- WatchImportPath
Frame(p) == [path |-> p, pc |-> "import", i |-> 1, todo |-> {}]

Top == stack[Len(stack)]
SetTop(f) == [stack EXCEPT ![Len(stack)] = f]
Pop == SubSeq(stack, 1, Len(stack) - 1)

\* The resolution goroutine going on while its send on Error is pending.
RunningUnblocked == resPc = "running"

\* The resolution goroutine can take a step: it is not blocked in a send.
Running == resPc = "running" /\ errPending = NoErr

\* WatchImportPath without its test for "C".
SkippedWithoutC(pk, importPath) == pk[importPath] # NoPkg

\* The two early returns of WatchImportPath.
Skipped(pk, importPath) == importPath = "C" \/ pk[importPath] # NoPkg

\* A call WatchImportPath(p) made with the caller's frames being base: it
\* returns at once for "C" and for a path found in Packages, and otherwise
\* runs in a new frame (a recursion beyond the stack limit is fatal).
CallWatchImportPath(p, base) ==
  /\ calls' = [calls EXCEPT ![p] = @ + 1]
  /\ IF Skipped(Packages, p)
       THEN stack' = base /\ resPc' = resPc
       ELSE IF Len(base) >= MaxDepth
              THEN stack' = base /\ resPc' = "overflow"
              ELSE stack' = Append(base, Frame(p)) /\ resPc' = resPc

\* The goroutine NewWatcher starts: WatchImportPath for each initial path.
\* The list is any list of at most MaxPaths initial paths; its next element,
\* or its end, is drawn when the loop gets there.
ResolveNext ==
  /\ Running
  /\ stack = <<>>
  /\ \E p \in IF Len(importPaths) < MaxPaths THEN InitialPaths \cup {"end"}
                                              ELSE {"end"} :
       IF p # "end"
         THEN /\ importPaths' = Append(importPaths, p)
              /\ CallWatchImportPath(p, stack)
         ELSE /\ resPc' = "done"
              /\ UNCHANGED <<importPaths, stack, calls>>
  /\ UNCHANGED <<ctor, done, Packages, DirPackages,
                 watchedDirectories, notifierOpen, notifierDirs, walk,
                 errPending, errLog, faults, resolveCalls, wdCalls,
                 watchCalls, proxyVars, closePc>>

\* "Failed to find import path %s with error %s"
ImportError(importPath) ==
  [kind |-> "import", dir |-> <<>>, path |-> <<importPath>>]

\* build.Import, and on failure the error send.
WIPImport ==
  /\ Running
  /\ stack # <<>>
  /\ Top.pc = "import"
  /\ resolveCalls' = [resolveCalls EXCEPT ![Top.path] = @ + 1]
  /\ IF Import(Top.path) = NoPkg
       THEN /\ errPending' = ImportError(Top.path)
            /\ stack' = SetTop([Top EXCEPT !.pc = "failed"])
       ELSE /\ errPending' = errPending
            /\ stack' = SetTop([Top EXCEPT !.pc = "insert"])
  /\ UNCHANGED <<importPaths, ctor, done, Packages, DirPackages,
                 watchedDirectories, notifierOpen, notifierDirs, resPc,
                 walk, errLog, faults, calls, wdCalls, watchCalls,
                 proxyVars, closePc>>

\* The failure made fatal to the whole resolution of the initial path: all
\* the callers are abandoned with it.
WIPFailedUnwinds ==
  /\ Running
  /\ stack # <<>>
  /\ Top.pc = "failed"
  /\ stack' = <<>>
  /\ UNCHANGED <<importPaths, ctor, done, Packages, DirPackages,
                 watchedDirectories, notifierOpen, notifierDirs, resPc,
                 walk, errPending, errLog, faults, calls,
                 resolveCalls, wdCalls, watchCalls, proxyVars, closePc>>

\* The return that follows the error send.
WIPFailed ==
  /\ Running
  /\ stack # <<>>
  /\ Top.pc = "failed"
  /\ stack' = Pop
  /\ UNCHANGED <<importPaths, ctor, done, Packages, DirPackages,
                 watchedDirectories, notifierOpen, notifierDirs, resPc,
                 walk, errPending, errLog, faults, calls,
                 resolveCalls, wdCalls, watchCalls, proxyVars, closePc>>

\* The second map write left out.
InsertPackagesOnly(dp, pkg) == dp

\* The registry after the two map writes for package pkg.
InsertPackages(pk, pkg) == [pk EXCEPT ![pkg] = pkg]
InsertDirPackages(dp, pkg) == [dp EXCEPT ![PkgDir(pkg)] = pkg]

WIPInsert ==
  /\ Running
  /\ stack # <<>>
  /\ Top.pc = "insert"
  /\ Packages' = InsertPackages(Packages, Import(Top.path))
  /\ DirPackages' = InsertDirPackages(DirPackages, Import(Top.path))
  /\ stack' = SetTop([Top EXCEPT !.pc = "imports", !.i = 1])
  /\ UNCHANGED <<importPaths, ctor, done, watchedDirectories, notifierOpen,
                 notifierDirs, resPc, walk, errPending, errLog,
                 faults, calls, resolveCalls, wdCalls, watchCalls, proxyVars,
                 closePc>>

\* The loop over pkg.Imports, one recursive call a step; after it the loop
\* over w.Packages starts.
WIPImports ==
  /\ Running
  /\ stack # <<>>
  /\ Top.pc = "imports"
  /\ LET imports == PkgImports(Import(Top.path))
     IN  IF Top.i <= Len(imports)
           THEN CallWatchImportPath(imports[Top.i],
                                    SetTop([Top EXCEPT !.i = @ + 1]))
           ELSE /\ stack' = SetTop([Top EXCEPT !.pc = "rewatch",
                       !.todo = {p \in PkgNames : Packages[p] # NoPkg}])
                /\ UNCHANGED <<calls, resPc>>
  /\ UNCHANGED <<importPaths, ctor, done, Packages, DirPackages,
                 watchedDirectories, notifierOpen, notifierDirs,
                 walk, errPending, errLog, faults, resolveCalls, wdCalls,
                 watchCalls, proxyVars, closePc>>

\* WatchDirectory's early return.
AlreadyWatched(wd, dir) == dir \in wd

\* The loop over w.Packages (a map: any order), calling WatchDirectory for
\* each package's directory; then WatchImportPath returns.
WIPRewatch ==
  /\ Running
  /\ stack # <<>>
  /\ Top.pc = "rewatch"
  /\ ~walk.active
  /\ IF Top.todo = {}
       THEN /\ stack' = Pop
            /\ UNCHANGED <<walk, wdCalls>>
       ELSE \E pkg \in Top.todo :
              /\ stack' = SetTop([Top EXCEPT !.todo = @ \ {pkg}])
              /\ wdCalls' = [wdCalls EXCEPT ![PkgDir(pkg)] = @ + 1]
              /\ IF AlreadyWatched(watchedDirectories, PkgDir(pkg))
                   THEN walk' = walk
                   ELSE walk' = [active |-> TRUE, root |-> PkgDir(pkg),
                                 todo |-> <<PkgDir(pkg)>>, pc |-> "visit"]
  /\ UNCHANGED <<importPaths, ctor, done, Packages, DirPackages,
                 watchedDirectories, notifierOpen, notifierDirs, resPc,
                 errPending, errLog, faults, calls, resolveCalls,
                 watchCalls, proxyVars, closePc>>


\* ---------------------------------------------------------- WatchDirectory
\* "Got error when walking directory %s with entry %s and error %s"
WalkError(dir, path) == [kind |-> "walk", dir |-> dir, path |-> path]
\* "Error watching %s: %s"
WatchError(path) == [kind |-> "watch", dir |-> <<>>, path |-> path]


\* The hidden-directory test left out.
HiddenNever(path) == FALSE

\* filepath.Base(info.Name())[0] == '.'
Hidden(path) == Base(path) \in DotNames

\* The walk function made to end the walk when it is handed an error: what
\* is left of the walk is dropped.
WalkErrorAborts(w) == [w EXCEPT !.todo = <<>>]

\* The walk function returns nil after it has reported an error: the walk
\* goes on with the entries left.
WalkErrorContinues(w) == [w EXCEPT !.todo = Tail(@)]

\* The walk function without its test of watchedDirectories.
WalkFnWithoutSeen(wd, path) ==
  IF path \notin Dirs THEN "file"
  ELSE IF Base(path) \in DotNames THEN "skipdir"
  ELSE "watch"

\* What the walk function does with an entry it is handed without an error:
\* "file" (not a directory: nothing), "skipdir" (a hidden directory: not
\* entered), "seen" (already in watchedDirectories: entered, not registered
\* again) or "watch" (registered, marked, entered).
WalkFn(wd, path) ==
  IF path \notin Dirs THEN "file"
  ELSE IF Hidden(path) THEN "skipdir"
  ELSE IF path \in wd THEN "seen"
  ELSE "watch"

\* The outcomes of a call into the environment, TRUE for success: it may
\* fail while the run's faults are not used up.
Outcomes(path) ==
  IF faults < MaxFaults /\ path \in FaultyDirs THEN BOOLEAN ELSE {TRUE}

\* filepath.Walk hands the next entry to the walk function: with the error,
\* when Lstat failed on it, and else with its FileInfo.  The walk function
\* registers a new directory with the notifier; a rejected registration is
\* reported before the directory is marked.  Walk returns after the last
\* entry.
WalkVisit ==
  /\ Running
  /\ walk.active
  /\ walk.pc = "visit"
  /\ IF walk.todo = <<>>
       THEN /\ walk' = NoWalk
            /\ UNCHANGED <<errPending, faults, watchCalls, notifierDirs,
                           watchedDirectories>>
       ELSE LET path == Head(walk.todo)
                kind == WalkFn(watchedDirectories, path)
            IN  \E lstat \in Outcomes(path), accept \in Outcomes(path) :
                  IF ~lstat
                    THEN /\ accept
                         /\ errPending' = WalkError(walk.root, path)
                         /\ faults' = faults + 1
                         /\ walk' = WalkErrorContinues(walk)
                         /\ UNCHANGED <<watchCalls, notifierDirs,
                                        watchedDirectories>>
                    ELSE IF kind = "watch"
                      THEN /\ watchCalls' = [watchCalls EXCEPT ![path] = @ + 1]
                           /\ IF accept
                                THEN /\ notifierDirs' = notifierDirs \cup {path}
                                     /\ watchedDirectories' =
                                          watchedDirectories \cup {path}
                                     /\ walk' = [walk EXCEPT !.pc = "readdir"]
                                     /\ UNCHANGED <<errPending, faults>>
                                ELSE /\ errPending' = WatchError(path)
                                     /\ faults' = faults + 1
                                     /\ walk' = [walk EXCEPT !.pc = "mark"]
                                     /\ UNCHANGED <<notifierDirs,
                                                    watchedDirectories>>
                      ELSE /\ accept
                           /\ walk' = IF kind = "seen"
                                        THEN [walk EXCEPT !.pc = "readdir"]
                                        ELSE [walk EXCEPT !.todo = Tail(@)]
                           /\ UNCHANGED <<errPending, faults, watchCalls,
                                          notifierDirs, watchedDirectories>>
  /\ UNCHANGED <<importPaths, ctor, done, Packages, DirPackages, notifierOpen,
                 resPc, stack, errLog, calls, resolveCalls, wdCalls,
                 proxyVars, closePc>>

\* A rejected registration left unmarked.
WalkMarkNothing ==
  /\ Running
  /\ walk.active
  /\ walk.pc = "mark"
  /\ walk' = [walk EXCEPT !.pc = "readdir"]
  /\ UNCHANGED <<importPaths, ctor, done, Packages, DirPackages, notifierOpen,
                 notifierDirs, resPc, stack, errPending, errLog,
                 faults, calls, resolveCalls, wdCalls, watchCalls, proxyVars,
                 closePc, watchedDirectories>>

\* After the error send for a rejected registration: the directory is
\* marked as watched all the same.
WalkMark ==
  /\ Running
  /\ walk.active
  /\ walk.pc = "mark"
  /\ watchedDirectories' = watchedDirectories \cup {Head(walk.todo)}
  /\ walk' = [walk EXCEPT !.pc = "readdir"]
  /\ UNCHANGED <<importPaths, ctor, done, Packages, DirPackages, notifierOpen,
                 notifierDirs, resPc, stack, errPending, errLog,
                 faults, calls, resolveCalls, wdCalls, watchCalls, proxyVars,
                 closePc>>

\* filepath.Walk reads the directory it has just handed to the walk
\* function and goes on with its entries, in lexical order, before the
\* entries left; a directory it cannot read is handed to the walk function
\* again, with the error, and is not entered.
WalkReadDir ==
  /\ Running
  /\ walk.active
  /\ walk.pc = "readdir"
  /\ \E readable \in Outcomes(Head(walk.todo)) :
       IF readable
         THEN /\ walk' = [walk EXCEPT !.pc = "visit",
                            !.todo = ReadDir(Head(@)) \o Tail(@)]
              /\ UNCHANGED <<errPending, faults>>
         ELSE /\ errPending' = WalkError(walk.root, Head(walk.todo))
              /\ faults' = faults + 1
              /\ walk' = WalkErrorContinues([walk EXCEPT !.pc = "visit"])
  /\ UNCHANGED <<importPaths, ctor, done, Packages, DirPackages,
                 watchedDirectories, notifierOpen, notifierDirs, resPc,
                 stack, errLog, calls, resolveCalls, wdCalls,
                 watchCalls, proxyVars, closePc>>

\* ------------------------------------------------------------- Error channel
\* The caller receives from Error: the blocked sender goes on.
ErrorReceive ==
  /\ errPending # NoErr
  /\ errLog' = Append(errLog, errPending)
  /\ errPending' = NoErr
  /\ UNCHANGED <<importPaths, ctor, done, Packages, DirPackages,
                 watchedDirectories, notifierOpen, notifierDirs, resPc,
                 stack, walk, faults, calls, resolveCalls, wdCalls,
                 watchCalls, proxyVars, closePc>>

\* --------------------------------------------------------------- proxyEvent
\* w.DirPackages[file]: nil for a path that is no key.
Lookup(dp, file) == IF file \in DOMAIN dp THEN dp[file] ELSE NoPkg

\* findPackage made to look up the path itself only.
findPackageNoWalkUp(dp, file) == Lookup(dp, file)

\* findPackage made to keep the last match of the walk up, not the first.
RECURSIVE findPackageOutermost(_, _)
findPackageOutermost(dp, file) ==
  IF file = Dot \/ file = Root THEN NoPkg
  ELSE LET up == findPackageOutermost(dp, Dir(file))
       IN  IF up # NoPkg THEN up ELSE Lookup(dp, file)

\* findPackage: the package of the first of file, Dir(file), Dir(Dir(file)),
\* ... that is a key of DirPackages; the loop ends at "/" and at ".".
RECURSIVE findPackage(_, _)
findPackage(dp, file) ==
  IF file = Dot \/ file = Root THEN NoPkg
  ELSE IF Lookup(dp, file) # NoPkg THEN Lookup(dp, file)
  ELSE findPackage(dp, Dir(file))

\* The Event literal without its FileEvent field.
EventWithoutFileEvent(dp, ev) ==
  [FileEvent |-> NoEvent, Package |-> findPackage(dp, ev.Name)]

\* &Event{FileEvent: ev, Package: w.findPackage(ev.Name)}
Event(dp, ev) == [FileEvent |-> ev, Package |-> findPackage(dp, ev.Name)]

\* The raw events the notifier can emit for a directory d it watches: one
\* for each directory directly inside d and one for a file f.go in d.
RawEvents(d) ==
  {[Name |-> e] : e \in {Append(d, "f.go")} \cup
                        {x \in Dirs : Len(x) > 1 /\ Dir(x) = d /\ x # d}}

\* The select's first case: a raw event arrives from the notifier for one of
\* the directories it watches; the Event is built, and the send on Event
\* is begun.  findPackage reads DirPackages with no synchronisation with
\* WIPInsert, which writes it: the lookup sees the map as it is before or
\* after that write, as this step comes before or after WIPInsert.
ProxyReceive ==
  /\ proxyPc = "select"
  /\ notifierOpen
  /\ \E d \in notifierDirs : \E ev \in RawEvents(d) :
       /\ inflight' = Append(inflight, ev)
       /\ cur' = Event(DirPackages, ev)
  /\ proxyPc' = "send"
  /\ UNCHANGED <<ctor, done, discVars, notifierOpen, resPc,
                 errLog, closePc>>

\* The caller receives from Event: the send completes and the loop goes
\* back to its select.
EventReceive ==
  /\ proxyPc = "send"
  /\ inflight' = Tail(inflight)
  /\ cur' = NoEvent
  /\ proxyPc' = "select"
  /\ UNCHANGED <<ctor, done, discVars, notifierOpen, resPc,
                 errLog, closePc>>

\* -------------------------------------------------------------------- Close
\* A send on done can complete: the channel is not nil and proxyEvent is at
\* its select to receive from it.
DoneReady == done # "nil" /\ proxyPc = "select"

\* Close: the send on done, which proxyEvent's select receives and returns
\* on, and then the notifier's Close.
Close ==
  /\ ctor = "ok"
  /\ IF closePc = "idle"
       THEN /\ closePc' = "send"
            /\ UNCHANGED <<proxyPc, notifierOpen>>
       ELSE IF closePc = "send"
         THEN /\ DoneReady
              /\ proxyPc' = "exited"
              /\ closePc' = "close"
              /\ UNCHANGED notifierOpen
         ELSE /\ closePc = "close"
              /\ notifierOpen' = FALSE
              /\ closePc' = "returned"
              /\ UNCHANGED proxyPc
  /\ UNCHANGED <<ctor, done, discVars, resPc, errLog, cur,
                 inflight>>

\* ------------------------------------------------------------ specification
Next ==
  \/ NewWatcher
  \/ ResolveNext
  \/ WIPImport
  \/ WIPFailed
  \/ WIPInsert
  \/ WIPImports
  \/ WIPRewatch
  \/ WalkVisit
  \/ WalkMark
  \/ WalkReadDir
  \/ ErrorReceive
  \/ ProxyReceive
  \/ EventReceive
  \/ Close

Spec == Init /\ [][Next]_vars

\* The goroutines run when they can, the caller keeps receiving from both
\* channels, and it calls Close, which runs when it can.
Fairness ==
  /\ WF_vars(ResolveNext) /\ WF_vars(WIPImport) /\ WF_vars(WIPFailed)
  /\ WF_vars(WIPInsert) /\ WF_vars(WIPImports) /\ WF_vars(WIPRewatch)
  /\ WF_vars(WalkVisit) /\ WF_vars(WalkMark) /\ WF_vars(WalkReadDir)
  /\ WF_vars(ErrorReceive) /\ WF_vars(EventReceive) /\ WF_vars(Close)

FairSpec == Spec /\ Fairness


\* ================================================================== claims

\* C1: once Close has been called on a Watcher that NewWatcher returned, the
\* proxy loop eventually exits, the notifier is eventually closed, and Close
\* returns.
C1_CloseCompletes ==
  (closePc = "send") ~>
     (proxyPc = "exited" /\ ~notifierOpen /\ closePc = "returned")

\* C2: once Close has been called, there comes a time after which the proxy
\* loop never again holds an event to publish on Event, whatever the
\* notifier goes on producing.
C2_NoEventsAfterClose == [](closePc # "idle" => <>[](proxyPc # "send"))


\* The proxy takes a raw event in this step.
ProxyTook == proxyPc = "select" /\ proxyPc' = "send"

\* C3: every raw event the proxy takes from the notifier is published as one
\* Event that carries that raw event and the package findPackage gives for
\* its path, before the next raw event is taken: at most one raw event is
\* unpublished at any time, the Event being sent is the one built from it,
\* and publishing it leaves nothing unpublished.
C3_Relay ==
  /\ [](/\ Len(inflight) <= 1
        /\ (proxyPc = "send") <=> (inflight # <<>>)
        /\ proxyPc = "send" => cur.FileEvent = inflight[1]
        /\ proxyPc # "send" => cur = NoEvent)
  /\ [][/\ ProxyTook =>
             /\ Len(inflight') = 1
             /\ cur' = [FileEvent |-> inflight'[1],
                        Package |-> findPackage(DirPackages,
                                                inflight'[1].Name)]
        /\ (proxyPc = "send" /\ proxyPc' # "send") =>
             (inflight' = <<>> /\ proxyPc' = "select")]_vars

\* C3's case: the proxy is publishing the event of a file of a package.
C3_Witness ==
  /\ proxyPc = "send"
  /\ cur.FileEvent.Name = fA
  /\ cur.Package = "a"

\* The path itself and every directory above it.
Ancestors(file) == {SubSeq(file, 1, k) : k \in 1..Len(file)}

\* The package that dp has for the longest path of cands, if it has one.
NearestIn(dp, cands) ==
  LET keys == {d \in cands : Lookup(dp, d) # NoPkg}
  IN  IF keys = {} THEN NoPkg
      ELSE dp[CHOOSE d \in keys : \A e \in keys : Len(e) <= Len(d)]

\* C4 as claimed: the package an Event carries is the package of the deepest
\* directory at or above the event's path that is a key of DirPackages, and
\* none when no such directory is a key.
C4_Nearest ==
  [][ProxyTook =>
       cur'.Package =
         NearestIn(DirPackages, Ancestors(cur'.FileEvent.Name))]_vars

\* C4 as amended: the same, among the directories other than the root "/"
\* (and "."), where the walk up stops without a lookup.
C4_NearestBelowRoot ==
  [][ProxyTook =>
       cur'.Package =
         NearestIn(DirPackages,
                   Ancestors(cur'.FileEvent.Name) \ {Root, Dot})]_vars

\* C4's case: with packages at /a and /a/b, an event under /a/b/c carries
\* the package at /a/b.
C4_Witness ==
  /\ proxyPc = "send"
  /\ cur.FileEvent.Name = Append(dABC, "f.go")
  /\ cur.Package = "b"
  /\ DirPackages[dA] = "a"
  /\ DirPackages[dAB] = "b"
  /\ DirPackages[dABC] = NoPkg


\* The resolver finds a package for import path p.
Resolvable(p) == Import(p) # NoPkg

\* C5: WatchImportPath is idempotent: however often it is called with an
\* import path that resolves, the resolver is called for that path at most
\* once (a later call finds the path in the registry and returns).
C5_Idempotent ==
  resPc = "done" =>
    \A p \in ImportPaths : Resolvable(p) => resolveCalls[p] <= 1

\* C6: discovery terminates: the resolution goroutine, once started, gets
\* through its import paths, errors being received.
C6_Terminates == (resPc = "running") ~> (resPc = "done")

\* C7: no directory is registered with the notifier more than once.
C7_RegisteredOnce == \A d \in Dirs : watchCalls[d] <= 1

\* C7's case: WatchDirectory has been called twice for /a/b, which the walk
\* of /a reaches as well, and /a/b has been registered once.
C7_Witness ==
  /\ wdCalls[dAB] >= 2
  /\ wdCalls[dA] >= 1
  /\ watchCalls[dAB] = 1
  /\ watchCalls[dA] = 1

\* The directories handed to the notifier or marked as watched.
Registered == {d \in Dirs : watchCalls[d] > 0 \/ d \in watchedDirectories}

\* Directory d is p or lies above it.
IsPrefix(d, p) == Len(d) <= Len(p) /\ SubSeq(p, 1, Len(d)) = d

\* C8 as claimed: no hidden directory, and no directory beneath a hidden
\* directory, is registered or marked as watched.
C8_NothingUnderHidden ==
  \A d \in Registered : \A k \in 2..Len(d) : d[k] \notin DotNames

\* C8 as amended: no hidden directory is registered or marked as watched, and
\* every directory that is lies at or beneath the directory of a registered
\* package with no hidden directory from that package directory down to it.
C8_HiddenNotEntered ==
  \A d \in Registered :
    /\ Base(d) \notin DotNames
    /\ \E r \in Dirs :
         /\ DirPackages[r] # NoPkg
         /\ IsPrefix(r, d)
         /\ \A k \in Len(r)..Len(d) : d[k] \notin DotNames

\* C8's case: the walk of /a has passed the hidden /a/.hid and goes on with
\* /a/b.
C8_Witness ==
  /\ walk.active
  /\ walk.root = dA
  /\ walk.pc = "visit"
  /\ walk.todo # <<>>
  /\ Head(walk.todo) = dAB
  /\ dHid \notin Registered
  /\ dHidO \notin Registered

\* The errors sent on Error so far, the one being sent included.
Sent == errLog \o (IF errPending = NoErr THEN <<>> ELSE <<errPending>>)
CountOf(seq, x) == Cardinality({i \in 1..Len(seq) : seq[i] = x})

\* WatchImportPath(p) has been dealt with: skipped, resolved or tried.
Handled(p) == p = "C" \/ Packages[p] # NoPkg \/ resolveCalls[p] > 0

\* C9: a resolution that fails inserts nothing (registry entries come from
\* successful resolutions only), sends one error naming the import path for
\* each failed resolver call, and returns to its caller alone, which goes
\* on: when the goroutine is done, every initial path and every import of
\* every registered package has been dealt with.
C9_FailureIsLocal ==
  /\ [](/\ \A p \in ImportPaths :
             ~Resolvable(p) =>
               /\ Packages[p] = NoPkg
               /\ CountOf(Sent, ImportError(p)) = resolveCalls[p]
        /\ \A k \in DOMAIN Packages :
             Packages[k] # NoPkg =>
               \E p \in ImportPaths : resolveCalls[p] > 0 /\ Import(p) = k
        /\ \A d \in Dirs :
             DirPackages[d] # NoPkg =>
               \E p \in ImportPaths :
                 /\ resolveCalls[p] > 0
                 /\ Import(p) = DirPackages[d]
                 /\ PkgDir(Import(p)) = d
        /\ resPc = "done" =>
             /\ \A i \in 1..Len(importPaths) : Handled(importPaths[i])
             /\ \A k \in PkgNames :
                  Packages[k] # NoPkg =>
                    \A i \in 1..Len(PkgImports(k)) :
                      Handled(PkgImports(k)[i]))
  /\ [][(stack # <<>> /\ Top.pc = "failed" /\ stack' # stack) =>
          (stack' = Pop /\ resPc' = "running"
             /\ Packages' = Packages /\ DirPackages' = DirPackages)]_vars

\* C9's case: "m" failed as the first initial path and as the first import
\* of a; the later initial path "./a" and a's later import b were resolved.
C9_Witness ==
  /\ resPc = "done"
  /\ importPaths = <<"m", "./a">>
  /\ resolveCalls["m"] = 2
  /\ CountOf(errLog, ImportError("m")) = 2
  /\ Packages["a"] = "a"
  /\ Packages["b"] = "b"

\* C10: when the notifier cannot be opened, NewWatcher returns the error and
\* no Watcher, and nothing runs: neither goroutine is started, the resolver
\* and the notifier are never called, and no event or error is produced.
C10_OpenFailure ==
  ctor = "failed" =>
    /\ resPc = "notstarted"
    /\ proxyPc = "notstarted"
    /\ closePc = "idle"
    /\ ~notifierOpen
    /\ \A p \in ImportPaths : calls[p] = 0 /\ resolveCalls[p] = 0
    /\ \A d \in Dirs : wdCalls[d] = 0 /\ watchCalls[d] = 0
    /\ \A p \in DOMAIN Packages : Packages[p] = NoPkg
    /\ Sent = <<>>
    /\ cur = NoEvent
    /\ inflight = <<>>

\* C10's case: NewWatcher has failed.
C10_Witness == ctor = "failed"

\* C11: a package is in both registry indices or in neither: every package
\* stored in Packages is the value DirPackages has under the package's
\* directory, and every value of DirPackages is stored in Packages under
\* its import path (and is keyed in DirPackages by its own directory).
C11_BothOrNeither ==
  /\ \A k \in DOMAIN Packages :
       Packages[k] # NoPkg =>
         Lookup(DirPackages, PkgDir(Packages[k])) = Packages[k]
  /\ \A d \in Dirs :
       DirPackages[d] # NoPkg =>
         /\ Packages[DirPackages[d]] = DirPackages[d]
         /\ PkgDir(DirPackages[d]) = d

\* C11's case: a and b are in both indices, a having been inserted twice
\* (for "./a" given twice).
C11_Witness ==
  /\ resolveCalls["./a"] = 2
  /\ Packages["a"] = "a" /\ DirPackages[dA] = "a"
  /\ Packages["b"] = "b" /\ DirPackages[dAB] = "b"
  /\ Packages["h"] = NoPkg /\ DirPackages[dHidO] = NoPkg

\* The directories that a walk of package directory r can reach: none when
\* r itself is hidden, and else those at or beneath r with no hidden
\* directory on the way down from r.
Reachable(r) ==
  {d \in Dirs : /\ IsPrefix(r, d)
                /\ \A k \in (Len(r) + 1)..Len(d) : d[k] \notin DotNames
                /\ Base(r) \notin DotNames}

\* The entries a walk reported an error for.
FailedEntries ==
  {Sent[i].path : i \in {j \in 1..Len(Sent) : Sent[j].kind = "walk"}}

\* Directory d is, or lies beneath, an entry a walk reported an error for.
UnderFailed(d) == \E e \in FailedEntries : IsPrefix(e, d)

\* The resolution goroutine is between two initial import paths, or done.
BetweenPaths == resPc \in {"running", "done"} /\ stack = <<>>

Rejected == {d \in Dirs : \E i \in 1..Len(Sent) : Sent[i] = WatchError(d)}

\* C13: a registration that the notifier rejects sends one error naming the
\* directory; once the error is received the directory is marked as watched
\* and the walk goes on into it, so that when the walk has returned the
\* directories directly inside it are watched too; and the directory is
\* never handed to the notifier again.
C13_RejectedIsMarked ==
  /\ [](\A d \in Rejected :
          /\ CountOf(Sent, WatchError(d)) = 1
          /\ watchCalls[d] = 1
          /\ d \notin notifierDirs
          /\ \/ d \in watchedDirectories
             \/ walk.active /\ walk.pc = "mark" /\ Head(walk.todo) = d
          /\ ~(walk.active /\ IsPrefix(walk.root, d)) =>
               \A c \in Dirs :
                 (Len(c) > 1 /\ Dir(c) = d /\ ~Hidden(c) /\ ~UnderFailed(c))
                   => c \in watchedDirectories)
  /\ [][(watchCalls' # watchCalls /\ notifierDirs' = notifierDirs) =>
          /\ walk'.pc = "mark"
          /\ walk'.todo = walk.todo
          /\ errPending' = WatchError(Head(walk.todo))
          /\ watchCalls'[Head(walk.todo)] = watchCalls[Head(walk.todo)] + 1
       ]_vars
  /\ [][(walk.active /\ walk.pc = "mark" /\ walk' # walk) =>
          /\ errPending = NoErr
          /\ watchedDirectories' = watchedDirectories \cup {Head(walk.todo)}
          /\ walk' = [walk EXCEPT !.pc = "readdir"]
       ]_vars

\* C13's case: the notifier rejected /a/b; /a/b is marked, the walk went on
\* to register /a/b/c, and a later WatchDirectory call for /a/b did not hand
\* it to the notifier again.
C13_Witness ==
  /\ WatchError(dAB) \in {errLog[i] : i \in 1..Len(errLog)}
  /\ dAB \in watchedDirectories
  /\ dAB \notin notifierDirs
  /\ dABC \in notifierDirs
  /\ wdCalls[dAB] >= 2
  /\ watchCalls[dAB] = 1

\* C14: the resolver is called at most once for each import path, those
\* whose resolution fails and those reached more than once included.
C14_ResolvedOnce == \A p \in ImportPaths : resolveCalls[p] <= 1

\* What the resolution goroutine has done: everything of the discovery but
\* the error it is sending.
resVars == <<importPaths, Packages, DirPackages, watchedDirectories,
             notifierDirs, resPc, stack, walk, faults, calls, resolveCalls,
             wdCalls, watchCalls>>

\* C15: a send blocks until it is received.  While an error is being sent
\* on Error the resolution goroutine does nothing: no package is inserted,
\* no directory registered or marked, no call made, and the only change to
\* the pending error is its receipt; the proxy, meanwhile, can still take a
\* raw event and can still have its Event received.  While an Event is
\* being sent the proxy takes no further raw event.
C15_SendBlocks ==
  /\ [][errPending # NoErr =>
          /\ resVars' = resVars
          /\ \/ errPending' = errPending /\ errLog' = errLog
             \/ errPending' = NoErr /\ errLog' = Append(errLog, errPending)
       ]_vars
  /\ [](errPending # NoErr =>
          /\ (proxyPc = "select" /\ notifierOpen /\ notifierDirs # {})
               => ENABLED ProxyReceive
          /\ proxyPc = "send" => ENABLED EventReceive)
  /\ [][proxyPc = "send" =>
          \/ <<cur, inflight, proxyPc>>' = <<cur, inflight, proxyPc>>
          \/ cur' = NoEvent /\ inflight' = <<>> /\ proxyPc' = "select"
       ]_vars

\* C15's case: the first error, for "m", is being sent and has not been
\* received, with /a/.hid/o registered before it and nothing after, while
\* the proxy is publishing an event.
C15_Witness ==
  /\ errPending = ImportError("m")
  /\ errLog = <<>>
  /\ importPaths = <<"h", "m">>
  /\ notifierDirs = {dHidO}
  /\ proxyPc = "send"

\* The resolution goroutine is about to write the registry (the two map
\* writes of WatchImportPath), and the proxy goroutine is about to read
\* DirPackages (findPackage, for a raw event of a watched directory).
RegistryWriteNext == Running /\ stack # <<>> /\ Top.pc = "insert"
RegistryReadNext == proxyPc = "select" /\ notifierOpen /\ notifierDirs # {}

\* C16: the registry is never read by one goroutine while another can be
\* writing it: the proxy's read of DirPackages and the resolution
\* goroutine's write are never both the next step of their goroutines.
C16_NoRace == ~(RegistryWriteNext /\ RegistryReadNext)

\* The entries the walk of root reported an error for.
FailedIn(root) ==
  {Sent[i].path :
     i \in {j \in 1..Len(Sent) : Sent[j].kind = "walk" /\ Sent[j].dir = root}}

\* The walk has handed its last entry to the walk function.
WalkAtEnd == walk.active /\ walk.pc = "visit" /\ walk.todo = <<>>

\* The errors sent for environment faults.
FaultErrors == {i \in 1..Len(Sent) : Sent[i].kind \in {"walk", "watch"}}

\* C17 as claimed: each failure to enumerate an entry is reported as one
\* error, and the walk goes on: at its end every directory of the tree that
\* the walk can reach, other than the entries that failed, is watched.
C17_AllRemaining ==
  /\ Cardinality(FaultErrors) = faults
  /\ WalkAtEnd =>
       \A d \in Reachable(walk.root) :
         d \notin FailedIn(walk.root) => d \in watchedDirectories

\* C17 as amended: the same, other than the entries that failed and what
\* lies beneath them.
C17_AllRemainingOutside ==
  /\ Cardinality(FaultErrors) = faults
  /\ WalkAtEnd =>
       \A d \in Reachable(walk.root) :
         (\A e \in FailedIn(walk.root) : ~IsPrefix(e, d))
            => d \in watchedDirectories

\* C17's case: in the walk of /a the hidden /a/.hid could not be stat'ed;
\* the error was reported, and the walk went on to register /a/b and
\* /a/b/c.
C17_Witness ==
  /\ WalkAtEnd
  /\ walk.root = dA
  /\ FailedIn(dA) = {dHid}
  /\ faults = 1
  /\ errPending = NoErr
  /\ watchCalls[dA] = 1 /\ watchCalls[dAB] = 1 /\ watchCalls[dABC] = 1
  /\ notifierDirs = {dA, dAB, dABC}

\* C18: WatchImportPath("C") does nothing.  The resolver is never called
\* for "C", no frame of WatchImportPath ever runs for it, nothing is stored
\* under it and no error names it; and the step that makes the call, from
\* the initial paths or from a package's imports, leaves the registry, the
\* watched directories, the notifier and the Error channel as they are and
\* starts no other call.
C18_CSkipped ==
  /\ [](/\ resolveCalls["C"] = 0
        /\ Packages["C"] = NoPkg
        /\ \A i \in 1..Len(stack) : stack[i].path # "C"
        /\ \A i \in 1..Len(Sent) : Sent[i] # ImportError("C"))
  /\ [][calls'["C"] # calls["C"] =>
          /\ calls'["C"] = calls["C"] + 1
          /\ UNCHANGED <<Packages, DirPackages, watchedDirectories,
                         notifierDirs, resolveCalls, wdCalls, watchCalls,
                         errPending, errLog, walk, faults, resPc>>
          /\ Len(stack') = Len(stack)
          /\ \A p \in ImportPaths \ {"C"} : calls'[p] = calls[p]
       ]_vars

\* C18's case: "C" was an initial path and an import of a, and the
\* goroutine is done.
C18_Witness ==
  /\ resPc = "done"
  /\ importPaths = <<"C", "./a">>
  /\ calls["C"] = 2
  /\ Packages["a"] = "a"

\* A directory is handed to the notifier only when a package directory at
\* or above it is already a key of DirPackages.
RegisteredUnderPackage ==
  [][\A d \in Dirs :
       watchCalls'[d] > watchCalls[d] =>
         \E r \in Dirs : DirPackages[r] # NoPkg /\ IsPrefix(r, d)]_vars

\* C19 as claimed: every directory is registered at or beneath the directory
\* of a package that DirPackages already has, and so every Event carries
\* a package.
C19_EventsOwned ==
  /\ RegisteredUnderPackage
  /\ [][ProxyTook => cur'.Package # NoPkg]_vars

\* C19 as amended: every directory is registered at or beneath the directory
\* of a package that DirPackages already has, and an Event carries a
\* package unless the only such package directory at or above the event's
\* path is the root "/".
C19_EventsOwnedBelowRoot ==
  /\ RegisteredUnderPackage
  /\ [][ProxyTook =>
          (cur'.Package = NoPkg =>
             /\ DirPackages[Root] # NoPkg
             /\ \A r \in Dirs \ {Root} :
                  IsPrefix(r, cur'.FileEvent.Name) => DirPackages[r] = NoPkg)
       ]_vars

\* C19's case: with the package at "/" and the package at /a/.hid/o
\* registered, an event for a file in /a/.hid/o carries the latter.
C19_Witness ==
  /\ proxyPc = "send"
  /\ cur.FileEvent.Name = Append(dHidO, "f.go")
  /\ cur.Package = "h"
  /\ DirPackages[Root] = "r"
  /\ {Root, dA, dHidO} \subseteq notifierDirs

=============================================================================
